---- MODULE Spec2Model ----
(***************************************************************************)
(* Model of the SupermicroX BMC client (providers/supermicro/supermicrox)  *)
(* and of the c7000 SOAP envelope builder (providers/hp/c7000).            *)
(*                                                                         *)
(* Go strings that the code converts (lower-casing, suffix stripping,      *)
(* integer parsing) are sequences of one-character strings; strings that   *)
(* are only copied are TLA+ strings.  A Go pointer or optional sub-element *)
(* is <<>> (nil) or <<v>>.  A Go error is a string, "nil" for no error.    *)
(* The BMC address is taken to be a well-formed host, so http.NewRequest   *)
(* and url.Parse succeed.                                                  *)
(***************************************************************************)
EXTENDS Integers, Sequences, FiniteSets, TLC

VARIABLES
    device,     \* the documents the BMC under ServerSnapshot reports
    pc,         \* position of ServerSnapshot
    idx,        \* number of accessors of the fixed sequence already invoked
    probe,      \* what the IsBlade probe returned
    server,     \* the Blade or Discrete record under construction
    calls,      \* accessors ServerSnapshot has invoked, in order
    callErrs,   \* the error each of them returned
    invoked,    \* every accessor entered during ServerSnapshot, with its caller
    ret,        \* what ServerSnapshot returned
    last,       \* the last single operation a caller invoked, with its result
    wrapIn,     \* arguments of the last wrapXML call
    doc,        \* the Envelope the last wrapXML call returned
    session,    \* whether the cookie jar holds a session cookie (SID)
    wireLog     \* the logins and requests sent to the BMC, in order

vars == <<device, pc, idx, probe, server, calls, callErrs, invoked, ret, last, wrapIn, doc, session, wireLog>>

-----------------------------------------------------------------------------
(* Bounds *)

MaxNodes == 2
MaxDimms == 2
MaxCPUs == 1
MaxKeyLen == 2
MaxOps == 2

-----------------------------------------------------------------------------
(* Values *)

Nil == <<>>
Some(v) == <<v>>
nil == "nil"

\* seqs of length at most n over S
SeqUpTo(S, n) == UNION {[1..k -> S] : k \in 0..n}

sMB == <<" ", "M", "B">>
sABC == <<"A", "B", "C">>
sabc == <<"a", "b", "c">>
sXYZ == <<"X", "Y", "Z">>
sxyz == <<"x", "y", "z">>
sXyZ == <<"X", "y", "Z">>

LowerMap == [c \in {"A", "B", "C", "X", "Y", "Z", "O", "N", "F"} |->
    CASE c = "A" -> "a" [] c = "B" -> "b" [] c = "C" -> "c"
      [] c = "X" -> "x" [] c = "Y" -> "y" [] c = "Z" -> "z"
      [] c = "O" -> "o" [] c = "N" -> "n" [] c = "F" -> "f"]

\* strings.ToLower
ToLower(s) == [i \in 1..Len(s) |-> IF s[i] \in DOMAIN LowerMap THEN LowerMap[s[i]] ELSE s[i]]

\* strings.TrimSuffix
TrimSuffix(s, suffix) ==
    IF Len(s) >= Len(suffix) /\ SubSeq(s, Len(s) - Len(suffix) + 1, Len(s)) = suffix
    THEN SubSeq(s, 1, Len(s) - Len(suffix))
    ELSE s

Digits == {"0", "1", "2", "3", "4", "5", "6", "7", "8", "9"}

DigitVal(c) ==
    CASE c = "0" -> 0 [] c = "1" -> 1 [] c = "2" -> 2 [] c = "3" -> 3 [] c = "4" -> 4
      [] c = "5" -> 5 [] c = "6" -> 6 [] c = "7" -> 7 [] c = "8" -> 8 [] c = "9" -> 9

RECURSIVE DecVal(_)
DecVal(s) == IF s = <<>> THEN 0 ELSE DecVal(SubSeq(s, 1, Len(s) - 1)) * 10 + DigitVal(s[Len(s)])

\* strconv.Atoi: an optional sign, then one or more decimal digits
\* (every number of the model fits the 64-bit int)
Atoi(s) ==
    LET signed == Len(s) > 0 /\ s[1] \in {"+", "-"}
        digs == IF signed THEN Tail(s) ELSE s
    IN  IF digs = <<>> \/ \E i \in 1..Len(digs) : digs[i] \notin Digits
        THEN [val |-> 0, err |-> "ErrSyntax"]
        ELSE [val |-> IF signed /\ s[1] = "-" THEN 0 - DecVal(digs) ELSE DecVal(digs),
              err |-> nil]

\* Go's integer division truncates toward zero (b > 0)
GoDiv(a, b) == IF a >= 0 THEN a \div b ELSE 0 - ((0 - a) \div b)
GoRem(a, b) == a - b * GoDiv(a, b)

\* float64(value) / 1000.00, kept exactly as whole units and thousandths
Float1000(value) == [whole |-> GoDiv(value, 1000), milli |-> GoRem(value, 1000)]
FloatZero == [whole |-> 0, milli |-> 0]

\* result of a call: the value, the error, or a run-time panic
R(val, err) == [val |-> val, err |-> err, panic |-> FALSE]
Panic == [val |-> Nil, err |-> nil, panic |-> TRUE]

-----------------------------------------------------------------------------
(* The vendor response document, supermicro.IPMI *)

EmptyIPMI == [FruInfo |-> Nil, GenericInfo |-> Nil, ConfigInfo |-> Nil, HealthInfo |-> Nil,
              Dimm |-> <<>>, CPU |-> <<>>, Bios |-> Nil, NodeInfo |-> Nil,
              PowerInfo |-> Nil, PlatformInfo |-> Nil, BiosLicense |-> Nil]

SerialNums == {<<>>, sABC, sabc, sXYZ, sxyz, sXyZ}

FruDocs ==
    {EmptyIPMI, [EmptyIPMI EXCEPT !.FruInfo = Some([Board |-> Nil])]}
    \cup {[EmptyIPMI EXCEPT !.FruInfo = Some([Board |-> Some([SerialNum |-> s, PartNum |-> "X11SSE-F"])])]
            : s \in SerialNums}

GenericDocs ==
    {EmptyIPMI,
     [EmptyIPMI EXCEPT !.GenericInfo = Some([IpmiFwVersion |-> "3.58", BmcMac |-> "0c:c4:7a:00:00:01", Generic |-> Nil])],
     [EmptyIPMI EXCEPT !.GenericInfo = Some([IpmiFwVersion |-> "", BmcMac |-> "", Generic |-> Nil])],
     [EmptyIPMI EXCEPT !.GenericInfo = Some([IpmiFwVersion |-> "", BmcMac |-> "",
         Generic |-> Some([IpmiFwVersion |-> "1.48", BmcMac |-> "0c:c4:7a:00:00:02"])])]}

ConfigDocs ==
    {EmptyIPMI,
     [EmptyIPMI EXCEPT !.ConfigInfo = Some([Hostname |-> Nil])],
     [EmptyIPMI EXCEPT !.ConfigInfo = Some([Hostname |-> Some([Name |-> "bmc-host"])])]}

HealthDocs ==
    {EmptyIPMI} \cup {[EmptyIPMI EXCEPT !.HealthInfo = Some([Health |-> h])] : h \in {"1", "0", ""}}

DimmSizes == {<<"8", "1", "9", "2">> \o sMB, <<"4", "0", "9", "6">> \o sMB,
              <<"5", "1", "2">> \o sMB, <<"1", "0", "2", "4">>, <<"N", "/", "A">>}

CPUEntries == {[Version |-> "Intel(R) Xeon(R) CPU E5-2630 v4", Core |-> <<"1", "0">>],
               [Version |-> "Intel(R) Xeon(R) CPU E5-2630 v4", Core |-> <<>>]}

SmbiosDocs ==
    {[EmptyIPMI EXCEPT !.Dimm = [i \in DOMAIN d |-> [Size |-> d[i]]], !.CPU = c, !.Bios = b]
        : d \in SeqUpTo(DimmSizes, MaxDimms), c \in SeqUpTo(CPUEntries, MaxCPUs),
          b \in {Nil, Some([Version |-> "2.0a"])}}

NodeEntries ==
    {[ID |-> 0, NodeSerial |-> sABC, Power |-> <<"5", "0", "0">>, SystemTemp |-> <<"3", "1">>],
     [ID |-> 1, NodeSerial |-> sXYZ, Power |-> <<"9", "0", "0">>, SystemTemp |-> <<"4", "2">>],
     [ID |-> 2, NodeSerial |-> sxyz, Power |-> <<"7", "5", "0">>, SystemTemp |-> <<"N", "/", "A">>],
     [ID |-> 3, NodeSerial |-> sXyZ, Power |-> <<"N", "/", "A">>, SystemTemp |-> <<"2", "5">>],
     [ID |-> 3, NodeSerial |-> <<>>, Power |-> <<"0">>, SystemTemp |-> <<"0">>]}

NodeDocs ==
    {EmptyIPMI} \cup {[EmptyIPMI EXCEPT !.NodeInfo = Some([Nodes |-> n])] : n \in SeqUpTo(NodeEntries, MaxNodes)}

PowerDocs ==
    {EmptyIPMI} \cup {[EmptyIPMI EXCEPT !.PowerInfo = Some([Power |-> [Status |-> s]])]
                        : s \in {<<"O", "N">>, <<"O", "F", "F">>, <<"o", "n">>}}

PlatformDocs ==
    {EmptyIPMI,
     [EmptyIPMI EXCEPT !.PlatformInfo = Some([MbMacAddr1 |-> "0c:c4:7a:00:00:11", MbMacAddr2 |-> "0c:c4:7a:00:00:12",
                                              MbMacAddr3 |-> "", MbMacAddr4 |-> ""])],
     [EmptyIPMI EXCEPT !.PlatformInfo = Some([MbMacAddr1 |-> "", MbMacAddr2 |-> "",
                                              MbMacAddr3 |-> "0c:c4:7a:00:00:13", MbMacAddr4 |-> "0c:c4:7a:00:00:14"])]}

LicenseDocs ==
    {EmptyIPMI} \cup {[EmptyIPMI EXCEPT !.BiosLicense = Some([Check |-> c])] : c \in {"0", "1", "2"}}

\* the chassis document of the Redfish endpoint, decoded or not
ChassisPayloads ==
    {[wellFormed |-> FALSE, SerialNumber |-> <<>>, Code |-> "", Message |-> ""],
     [wellFormed |-> TRUE, SerialNumber |-> <<>>, Code |-> "1", Message |-> "bad"]}
    \cup {[wellFormed |-> TRUE, SerialNumber |-> s, Code |-> "", Message |-> ""] : s \in {sABC, sxyz}}

-----------------------------------------------------------------------------
(* One HTTP exchange as the BMC and the network decide it *)

Statuses == {200, 404, 500}

\* exchanges that end before a body is read
FailedExchanges(empty) ==
    {[login |-> FALSE, net |-> "ok", status |-> 200, wellFormed |-> TRUE, body |-> empty],
     [login |-> TRUE, net |-> "fail", status |-> 200, wellFormed |-> TRUE, body |-> empty],
     [login |-> TRUE, net |-> "readfail", status |-> 200, wellFormed |-> TRUE, body |-> empty]}

\* the exchanges of one query whose well-formed answers are docs
QueryWires(docs) ==
    FailedExchanges(EmptyIPMI)
    \cup [login : {TRUE}, net : {"ok"}, status : Statuses \ {404}, wellFormed : BOOLEAN, body : docs]

FruWires == QueryWires(FruDocs)
GenericWires == QueryWires(GenericDocs)
ConfigWires == QueryWires(ConfigDocs)
HealthWires == QueryWires(HealthDocs)
SmbiosWires == QueryWires(SmbiosDocs)
NodeWires == QueryWires(NodeDocs)
PowerWires == QueryWires(PowerDocs)
PlatformWires == QueryWires(PlatformDocs)
LicenseWires == QueryWires(LicenseDocs)

GetWires ==
    FailedExchanges([wellFormed |-> FALSE, SerialNumber |-> <<>>, Code |-> "", Message |-> ""])
    \cup [login : {TRUE}, net : {"ok"}, status : Statuses, wellFormed : {TRUE}, body : ChassisPayloads]

-----------------------------------------------------------------------------
(* Session Manager and codec: httpLogin, query, get *)

\* httpLogin: the login handshake; it fails or it leaves a session cookie
httpLogin(w) == IF w.login THEN nil ELSE "ErrLogin"

\* query with the error of httpClient.Do dropped
queryIgnoringDoError(w) ==
    IF httpLogin(w) # nil THEN [ipmi |-> Nil, err |-> httpLogin(w)]
    ELSE IF w.net = "readfail" THEN [ipmi |-> Nil, err |-> "ErrRead"]
    ELSE IF w.net = "ok" /\ ~w.wellFormed THEN [ipmi |-> Some(w.body), err |-> "ErrDecode"]
    ELSE [ipmi |-> Some(w.body), err |-> nil]

\* query(requestType): the decoded document and the error
query(w) ==
    IF httpLogin(w) # nil THEN [ipmi |-> Nil, err |-> httpLogin(w)]
    ELSE IF w.net = "fail" THEN [ipmi |-> Nil, err |-> "ErrTransport"]
    ELSE IF w.net = "readfail" THEN [ipmi |-> Nil, err |-> "ErrRead"]
    ELSE IF ~w.wellFormed THEN [ipmi |-> Some(w.body), err |-> "ErrDecode"]
    ELSE [ipmi |-> Some(w.body), err |-> nil]

\* get(endpoint, authentication): the payload and the error
get(w) ==
    IF httpLogin(w) # nil THEN [payload |-> Nil, err |-> httpLogin(w)]
    ELSE IF w.net = "fail" THEN [payload |-> Nil, err |-> "ErrTransport"]
    ELSE IF w.net = "readfail" THEN [payload |-> Nil, err |-> "ErrRead"]
    ELSE IF w.status = 404 THEN [payload |-> Nil, err |-> "ErrPageNotFound"]
    ELSE [payload |-> Some(w.body), err |-> nil]

\* post(endpoint, urlValues, form, formDataContentType): the status code and
\* the error
post(w) ==
    IF httpLogin(w) # nil THEN [statusCode |-> 0, err |-> httpLogin(w)]
    ELSE IF w.net = "fail" THEN [statusCode |-> 0, err |-> "ErrTransport"]
    ELSE IF w.net = "readfail" THEN [statusCode |-> w.status, err |-> "ErrRead"]
    ELSE [statusCode |-> w.status, err |-> nil]

\* the exchanges of a post: body says which of the two request forms is sent
PostWires ==
    FailedExchanges("urlencoded")
    \cup [login : {TRUE}, net : {"ok"}, status : Statuses, wellFormed : {TRUE},
          body : {"urlencoded", "multipart"}]

\* httpLogin on the wire: one login exchange, whether or not the jar already
\* holds a session cookie
LoginEvent(kind, w, n, sess) ==
    [ev |-> "login", op |-> n, kind |-> kind, ok |-> httpLogin(w) = nil, session |-> sess]

\* the cookie jar after httpLogin: a successful login stores the session cookie
SessionAfter(w, sess) == sess \/ httpLogin(w) = nil

\* httpClient.Do(req): the request, with the SID cookie of the jar attached
RequestEvent(kind, w, n, sess) ==
    [ev |-> "request", op |-> n, kind |-> kind, ok |-> w.net # "fail",
     session |-> SessionAfter(w, sess)]

\* what operation n, a query, sends: the login, then its request unless the
\* login failed
queryEvents(w, n, sess) ==
    <<LoginEvent("query", w, n, sess)>>
    \o (IF httpLogin(w) # nil THEN <<>> ELSE <<RequestEvent("query", w, n, sess)>>)

\* get taking a session already in the jar as reason to skip the login
getEventsSkippingLogin(w, n, sess) ==
    IF sess THEN <<RequestEvent("get", w, n, sess)>>
    ELSE <<LoginEvent("get", w, n, sess)>>
         \o (IF httpLogin(w) # nil THEN <<>> ELSE <<RequestEvent("get", w, n, sess)>>)

getEvents(w, n, sess) ==
    <<LoginEvent("get", w, n, sess)>>
    \o (IF httpLogin(w) # nil THEN <<>> ELSE <<RequestEvent("get", w, n, sess)>>)

postEvents(w, n, sess) ==
    <<LoginEvent("post", w, n, sess)>>
    \o (IF httpLogin(w) # nil THEN <<>> ELSE <<RequestEvent("post", w, n, sess)>>)

-----------------------------------------------------------------------------
(* Capability Facade: each accessor on the exchanges ws its queries meet *)

\* Serial without the lower-casing
SerialVerbatim(ws) ==
    LET q == query(ws[1]) IN
    IF q.err # nil THEN R(<<>>, q.err)
    ELSE IF q.ipmi[1].FruInfo = Nil \/ q.ipmi[1].FruInfo[1].Board = Nil
         THEN R(<<>>, "ErrInvalidSerial")
         ELSE R(q.ipmi[1].FruInfo[1].Board[1].SerialNum, nil)

Serial(ws) ==
    LET q == query(ws[1]) IN
    IF q.err # nil THEN R(<<>>, q.err)
    ELSE IF q.ipmi[1].FruInfo = Nil \/ q.ipmi[1].FruInfo[1].Board = Nil
         THEN R(<<>>, "ErrInvalidSerial")
         ELSE R(ToLower(q.ipmi[1].FruInfo[1].Board[1].SerialNum), nil)

ChassisSerial(ws) ==
    LET g == get(ws[1]) IN
    IF g.err # nil THEN R(<<>>, g.err)
    ELSE IF ~g.payload[1].wellFormed THEN R(<<>>, "ErrJSON")
    ELSE IF g.payload[1].Code # ""
         THEN R(<<>>, "Code: " \o g.payload[1].Code \o ", Message: " \o g.payload[1].Message)
         ELSE R(ToLower(g.payload[1].SerialNumber), nil)

Model(ws) ==
    LET q == query(ws[1]) IN
    IF q.err # nil THEN R("", q.err)
    ELSE IF q.ipmi[1].FruInfo # Nil /\ q.ipmi[1].FruInfo[1].Board # Nil
         THEN R(q.ipmi[1].FruInfo[1].Board[1].PartNum, nil)
         ELSE R("", "ErrModelNotFound")

\* HardwareType: the model, or "" when Model fails (the error is only logged)
HardwareType(ws) == IF Model(ws).err # nil THEN "" ELSE Model(ws).val

Version(ws) ==
    LET q == query(ws[1]) IN
    IF q.err # nil THEN R("", q.err)
    ELSE IF q.ipmi[1].GenericInfo # Nil /\ q.ipmi[1].GenericInfo[1].IpmiFwVersion # ""
         THEN R(q.ipmi[1].GenericInfo[1].IpmiFwVersion, nil)
    ELSE IF q.ipmi[1].GenericInfo # Nil /\ q.ipmi[1].GenericInfo[1].Generic # Nil
         THEN R(q.ipmi[1].GenericInfo[1].Generic[1].IpmiFwVersion, nil)
         ELSE R("", nil)

Name(ws) ==
    LET q == query(ws[1]) IN
    IF q.err # nil THEN R("", q.err)
    ELSE IF q.ipmi[1].ConfigInfo # Nil /\ q.ipmi[1].ConfigInfo[1].Hostname # Nil
         THEN R(q.ipmi[1].ConfigInfo[1].Hostname[1].Name, nil)
         ELSE R("", nil)

Status(ws) ==
    LET q == query(ws[1]) IN
    IF q.err # nil THEN R("", q.err)
    ELSE IF q.ipmi[1].HealthInfo # Nil /\ q.ipmi[1].HealthInfo[1].Health = "1"
         THEN R("OK", nil)
         ELSE R("Unhealthy", nil)

\* the loop of Memory dividing each module's size by 1024 before adding it
RECURSIVE SumDimmsDividingEach(_, _, _, _)
SumDimmsDividingEach(dimm, i, mem, err) ==
    IF i > Len(dimm) THEN R(mem, err)
    ELSE LET size == Atoi(TrimSuffix(dimm[i].Size, sMB)) IN
         IF size.err # nil THEN R(mem, size.err)
         ELSE SumDimmsDividingEach(dimm, i + 1, mem + GoDiv(size.val, 1024), err)

\* the loop of Memory from module i on, mem megabytes summed so far:
\* the total in GiB with the error of query, or the error of the first bad size
RECURSIVE SumDimms(_, _, _, _)
SumDimms(dimm, i, mem, err) ==
    IF i > Len(dimm) THEN R(GoDiv(mem, 1024), err)
    ELSE LET size == Atoi(TrimSuffix(dimm[i].Size, sMB)) IN
         IF size.err # nil THEN R(mem, size.err)
         ELSE SumDimms(dimm, i + 1, mem + size.val, err)

\* Memory reads ipmi.Dimm before it looks at err: a nil document panics
Memory(ws) ==
    LET q == query(ws[1]) IN
    IF q.ipmi = Nil THEN Panic
    ELSE SumDimms(q.ipmi[1].Dimm, 1, 0, q.err)

\* httpclient.StandardizeProcessorName: the normalized form of a raw name
StandardizeProcessorName(raw) == [standardized |-> raw]

CPUZero == [cpu |-> "", cpuCount |-> 0, coreCount |-> 0, hyperthreadCount |-> 0]

CPU(ws) ==
    LET q == query(ws[1]) IN
    IF q.err # nil THEN R(CPUZero, q.err)
    ELSE IF Len(q.ipmi[1].CPU) = 0 THEN R(CPUZero, nil)
    ELSE LET entry == q.ipmi[1].CPU[1]
             cpu == StandardizeProcessorName(entry.Version)
             cpuCount == Len(q.ipmi[1].CPU)
             core == Atoi(entry.Core)
         IN  IF core.err # nil
             THEN R([cpu |-> cpu, cpuCount |-> cpuCount, coreCount |-> 0, hyperthreadCount |-> 0], core.err)
             ELSE R([cpu |-> cpu, cpuCount |-> cpuCount, coreCount |-> core.val,
                     hyperthreadCount |-> core.val], nil)

BiosVersion(ws) ==
    LET q == query(ws[1]) IN
    IF q.err # nil THEN R("", q.err)
    ELSE IF q.ipmi[1].Bios # Nil THEN R(q.ipmi[1].Bios[1].Version, nil)
    ELSE R("", nil)

\* positions of the node entries whose serial, lower-cased, is serial
Matching(nodes, serial) == {i \in 1..Len(nodes) : ToLower(nodes[i].NodeSerial) = serial}
First(S) == CHOOSE i \in S : \A j \in S : i <= j
Last(S) == CHOOSE i \in S : \A j \in S : i >= j

\* PowerKw reporting the watts undivided
PowerKwUndivided(ws) ==
    LET q == query(ws[1]) IN
    IF q.err # nil THEN R(FloatZero, q.err)
    ELSE IF q.ipmi[1].NodeInfo = Nil THEN R(FloatZero, nil)
    ELSE LET s == Serial(<<ws[2]>>)
             nodes == q.ipmi[1].NodeInfo[1].Nodes
         IN  IF s.err # nil THEN R(FloatZero, s.err)
             ELSE IF Matching(nodes, s.val) = {} THEN R(FloatZero, nil)
             ELSE LET value == Atoi(nodes[First(Matching(nodes, s.val))].Power) IN
                  IF value.err # nil THEN R(FloatZero, value.err)
                  ELSE R([whole |-> value.val, milli |-> 0], nil)

PowerKw(ws) ==
    LET q == query(ws[1]) IN
    IF q.err # nil THEN R(FloatZero, q.err)
    ELSE IF q.ipmi[1].NodeInfo = Nil THEN R(FloatZero, nil)
    ELSE LET s == Serial(<<ws[2]>>)
             nodes == q.ipmi[1].NodeInfo[1].Nodes
         IN  IF s.err # nil THEN R(FloatZero, s.err)
             ELSE IF Matching(nodes, s.val) = {} THEN R(FloatZero, nil)
             ELSE LET value == Atoi(nodes[First(Matching(nodes, s.val))].Power) IN
                  IF value.err # nil THEN R(FloatZero, value.err)
                  ELSE R(Float1000(value.val), nil)

sunknow == <<"u", "n", "k", "n", "o", "w">>

PowerState(ws) ==
    LET q == query(ws[1]) IN
    IF q.err # nil THEN R(<<>>, q.err)
    ELSE IF q.ipmi[1].PowerInfo # Nil THEN R(ToLower(q.ipmi[1].PowerInfo[1].Power.Status), nil)
    ELSE R(sunknow, nil)

TempC(ws) ==
    LET q == query(ws[1]) IN
    IF q.err # nil THEN R(0, q.err)
    ELSE IF q.ipmi[1].NodeInfo = Nil THEN R(0, nil)
    ELSE LET s == Serial(<<ws[2]>>)
             nodes == q.ipmi[1].NodeInfo[1].Nodes
         IN  IF s.err # nil THEN R(0, s.err)
             ELSE IF Matching(nodes, s.val) = {} THEN R(0, nil)
             ELSE LET temp == Atoi(nodes[First(Matching(nodes, s.val))].SystemTemp) IN
                  R(temp.val, temp.err)

\* IsBlade answering true as soon as the node-info document is there
IsBladeAnyNodeInfo(ws) ==
    LET q == query(ws[1]) IN
    IF q.err # nil THEN R(FALSE, q.err)
    ELSE R(q.ipmi[1].NodeInfo # Nil, nil)

IsBlade(ws) ==
    LET q == query(ws[1]) IN
    IF q.err # nil THEN R(FALSE, q.err)
    ELSE IF q.ipmi[1].NodeInfo # Nil
            /\ \E i \in 1..Len(q.ipmi[1].NodeInfo[1].Nodes) :
                   q.ipmi[1].NodeInfo[1].Nodes[i].NodeSerial # <<>>
         THEN R(TRUE, nil)
         ELSE R(FALSE, nil)

Slot(ws) ==
    LET q == query(ws[1]) IN
    IF q.err # nil THEN R(1, q.err)
    ELSE IF q.ipmi[1].NodeInfo = Nil THEN R(1, "ErrUnableToReadData")
    ELSE LET s == Serial(<<ws[2]>>)
             nodes == q.ipmi[1].NodeInfo[1].Nodes
         IN  IF s.err # nil THEN R(1, s.err)
             ELSE IF Matching(nodes, s.val) = {} THEN R(1, nil)
             ELSE R(nodes[Last(Matching(nodes, s.val))].ID + 1, nil)

Nic(name, mac) == [Name |-> name, MacAddress |-> mac]

\* the "bmc" NIC the GENERIC_INFO document yields
BmcNics(ipmi) ==
    IF ipmi.GenericInfo = Nil THEN <<>>
    ELSE IF ipmi.GenericInfo[1].BmcMac # "" THEN <<Nic("bmc", ipmi.GenericInfo[1].BmcMac)>>
    ELSE IF ipmi.GenericInfo[1].Generic # Nil
         THEN <<Nic("bmc", ipmi.GenericInfo[1].Generic[1].BmcMac)>>
         ELSE <<>>

\* the host NICs the Get_PlatformInfo document yields
HostNics(ipmi) ==
    IF ipmi.PlatformInfo = Nil THEN <<>>
    ELSE LET p == ipmi.PlatformInfo[1] IN
         (IF p.MbMacAddr1 # "" THEN <<Nic("eth0", p.MbMacAddr1)>> ELSE <<>>)
         \o (IF p.MbMacAddr2 # "" THEN <<Nic("eth1", p.MbMacAddr2)>> ELSE <<>>)
         \o (IF p.MbMacAddr3 # "" THEN <<Nic("eth2", p.MbMacAddr3)>> ELSE <<>>)
         \o (IF p.MbMacAddr4 # "" THEN <<Nic("eth3", p.MbMacAddr4)>> ELSE <<>>)

Nics(ws) ==
    LET q1 == query(ws[1]) IN
    IF q1.err # nil THEN R(<<>>, q1.err)
    ELSE LET q2 == query(ws[2]) IN
         IF q2.err # nil THEN R(BmcNics(q1.ipmi[1]), q2.err)
         ELSE R(BmcNics(q1.ipmi[1]) \o HostNics(q2.ipmi[1]), nil)

LicenseZero == [name |-> "", licType |-> ""]

License(ws) ==
    LET q == query(ws[1]) IN
    IF q.err # nil THEN R(LicenseZero, q.err)
    ELSE IF q.ipmi[1].BiosLicense # Nil /\ q.ipmi[1].BiosLicense[1].Check = "0"
         THEN R([name |-> "oob", licType |-> "Activated"], nil)
    ELSE IF q.ipmi[1].BiosLicense # Nil /\ q.ipmi[1].BiosLicense[1].Check = "1"
         THEN R([name |-> "oob", licType |-> "Not Activated"], nil)
         ELSE R(LicenseZero, nil)

Disks(ws) == R(<<>>, nil)

Vendor == "Supermicro"

-----------------------------------------------------------------------------
(* c7000: wrapXML *)

ZeroHeader == [Security |-> [MustUnderstand |-> "",
                             HpOaSessionKeyToken |-> [OaSessionKey |-> [Text |-> <<>>]]]]

\* wrapXML marking the token "1" instead of "true"
wrapXMLMustUnderstandOne(element, sessionKey) ==
    [SOAPENV |-> "http://www.w3.org/2003/05/soap-envelope",
     Xsi |-> "http://www.w3.org/2001/XMLSchema-instance",
     Xsd |-> "http://www.w3.org/2001/XMLSchema",
     Wsu |-> "http://docs.oasis-open.org/wss/2004/01/oasis-200401-wss-wssecurity-utility-1.0.xsd",
     Wsse |-> "http://docs.oasis-open.org/wss/2004/01/oasis-200401-wss-wssecurity-secext-1.0.xsd",
     Hpoa |-> "hpoa.xsd",
     Body |-> [Content |-> element],
     Header |-> [Security |-> [MustUnderstand |-> "1",
                               HpOaSessionKeyToken |-> [OaSessionKey |-> [Text |-> sessionKey]]]]]

wrapXML(element, sessionKey) ==
    [SOAPENV |-> "http://www.w3.org/2003/05/soap-envelope",
     Xsi |-> "http://www.w3.org/2001/XMLSchema-instance",
     Xsd |-> "http://www.w3.org/2001/XMLSchema",
     Wsu |-> "http://docs.oasis-open.org/wss/2004/01/oasis-200401-wss-wssecurity-utility-1.0.xsd",
     Wsse |-> "http://docs.oasis-open.org/wss/2004/01/oasis-200401-wss-wssecurity-secext-1.0.xsd",
     Hpoa |-> "hpoa.xsd",
     Body |-> [Content |-> element],
     Header |-> IF sessionKey # <<>>
                THEN [Security |-> [MustUnderstand |-> "true",
                                    HpOaSessionKeyToken |-> [OaSessionKey |-> [Text |-> sessionKey]]]]
                ELSE ZeroHeader]

Payloads == {"userLogIn", "getEnclosureInfo", "getBladeInfo", "getRackTopology2", "getPowerSubsystemInfo"}
SessionKeys == SeqUpTo({"0", "9", "A", "f"}, MaxKeyLen)

-----------------------------------------------------------------------------
(* States in which a part of the program has not been used *)

NoSnapshot ==
    /\ pc = "idle" /\ idx = 0 /\ probe = R(FALSE, nil) /\ server = Nil
    /\ calls = <<>> /\ callErrs = <<>> /\ invoked = <<>>
    /\ ret = [server |-> Nil, err |-> nil]
NoCall == last = [op |-> "none", ws |-> <<>>, out |-> R(Nil, nil)]
NoWrap == wrapIn = Nil /\ doc = Nil
NoSession == session = FALSE /\ wireLog = <<>>

snapVars == <<device, pc, idx, probe, server, calls, callErrs, invoked, ret>>
wrapVars == <<wrapIn, doc>>
sessVars == <<session, wireLog>>

-----------------------------------------------------------------------------
(* A caller invoking single operations of a SupermicroX *)

\* the operations are blocking calls of one caller: one at a time
Called(op, ws, out) ==
    /\ last' = [op |-> op, ws |-> ws, out |-> out]
    /\ UNCHANGED <<snapVars, wrapVars, sessVars>>

\* the caller has taken the result
Return ==
    /\ ~NoCall
    /\ last' = [op |-> "none", ws |-> <<>>, out |-> R(Nil, nil)]
    /\ UNCHANGED <<snapVars, wrapVars, sessVars>>

CallQuery ==
    /\ NoCall
    /\ \E w \in FruWires :
           Called("query", <<w>>, query(w))
CallGet ==
    /\ NoCall
    /\ \E w \in GetWires :
           Called("get", <<w>>, get(w))
CallSerial ==
    /\ NoCall
    /\ \E w \in FruWires :
           Called("Serial", <<w>>, Serial(<<w>>))
CallChassisSerial ==
    /\ NoCall
    /\ \E w \in GetWires :
           Called("ChassisSerial", <<w>>, ChassisSerial(<<w>>))
CallModel ==
    /\ NoCall
    /\ \E w \in FruWires :
           Called("Model", <<w>>, Model(<<w>>))
CallHardwareType ==
    /\ NoCall
    /\ \E w \in FruWires :
           Called("HardwareType", <<w>>, R(HardwareType(<<w>>), nil))
CallVersion ==
    /\ NoCall
    /\ \E w \in GenericWires :
           Called("Version", <<w>>, Version(<<w>>))
CallName ==
    /\ NoCall
    /\ \E w \in ConfigWires :
           Called("Name", <<w>>, Name(<<w>>))
CallStatus ==
    /\ NoCall
    /\ \E w \in HealthWires :
           Called("Status", <<w>>, Status(<<w>>))
CallMemory ==
    /\ NoCall
    /\ \E w \in SmbiosWires :
           Called("Memory", <<w>>, Memory(<<w>>))
CallCPU ==
    /\ NoCall
    /\ \E w \in SmbiosWires :
           Called("CPU", <<w>>, CPU(<<w>>))
CallBiosVersion ==
    /\ NoCall
    /\ \E w \in SmbiosWires :
           Called("BiosVersion", <<w>>, BiosVersion(<<w>>))
CallPowerKw ==
    /\ NoCall
    /\ \E w1 \in NodeWires, w2 \in FruWires :
           Called("PowerKw", <<w1, w2>>, PowerKw(<<w1, w2>>))
CallPowerState ==
    /\ NoCall
    /\ \E w \in PowerWires :
           Called("PowerState", <<w>>, PowerState(<<w>>))
CallTempC ==
    /\ NoCall
    /\ \E w1 \in NodeWires, w2 \in FruWires :
           Called("TempC", <<w1, w2>>, TempC(<<w1, w2>>))
CallIsBlade ==
    /\ NoCall
    /\ \E w \in NodeWires :
           Called("IsBlade", <<w>>, IsBlade(<<w>>))
CallSlot ==
    /\ NoCall
    /\ \E w1 \in NodeWires, w2 \in FruWires :
           Called("Slot", <<w1, w2>>, Slot(<<w1, w2>>))
CallNics ==
    /\ NoCall
    /\ \E w1 \in GenericWires, w2 \in PlatformWires :
           Called("Nics", <<w1, w2>>, Nics(<<w1, w2>>))
CallLicense ==
    /\ NoCall
    /\ \E w \in LicenseWires :
           Called("License", <<w>>, License(<<w>>))

FacadeInit == device = Nil /\ NoSnapshot /\ NoCall /\ NoWrap /\ NoSession

FacadeNext ==
    \/ CallQuery \/ CallGet \/ CallSerial \/ CallChassisSerial \/ CallModel
    \/ CallHardwareType \/ CallVersion \/ CallName \/ CallStatus \/ CallMemory
    \/ CallCPU \/ CallBiosVersion \/ CallPowerKw \/ CallPowerState \/ CallTempC
    \/ CallIsBlade \/ CallSlot \/ CallNics \/ CallLicense
    \/ Return

FacadeSpec == FacadeInit /\ [][FacadeNext]_vars

-----------------------------------------------------------------------------
(* A caller building SOAP envelopes *)

CallWrapXML ==
    /\ NoWrap
    /\ \E element \in Payloads, sessionKey \in SessionKeys :
        /\ wrapIn' = Some([element |-> element, sessionKey |-> sessionKey])
        /\ doc' = Some(wrapXML(element, sessionKey))
        /\ UNCHANGED <<snapVars, last, sessVars>>

WrapReturn ==
    /\ ~NoWrap
    /\ wrapIn' = Nil /\ doc' = Nil
    /\ UNCHANGED <<snapVars, last, sessVars>>

WrapInit == device = Nil /\ NoSnapshot /\ NoCall /\ NoWrap /\ NoSession
WrapNext == CallWrapXML \/ WrapReturn
WrapSpec == WrapInit /\ [][WrapNext]_vars

-----------------------------------------------------------------------------
(* Snapshot Aggregator: ServerSnapshot, one accessor call at a time *)

nodeABC == [ID |-> 0, NodeSerial |-> sABC, Power |-> <<"5", "0", "0">>, SystemTemp |-> <<"3", "1">>]
nodeXYZ == [ID |-> 1, NodeSerial |-> sXYZ, Power |-> <<"9", "0", "0">>, SystemTemp |-> <<"4", "2">>]
nodeAnon == [ID |-> 0, NodeSerial |-> <<>>, Power |-> <<"0">>, SystemTemp |-> <<"0">>]

\* the BMCs a snapshot is taken of: what each query family answers when the
\* exchange goes well
Devices ==
    [fru : {EmptyIPMI,
            [EmptyIPMI EXCEPT !.FruInfo = Some([Board |-> Some([SerialNum |-> sXYZ, PartNum |-> "X11SSE-F"])])]},
     node : {EmptyIPMI,
             [EmptyIPMI EXCEPT !.NodeInfo = Some([Nodes |-> <<nodeAnon>>])],
             [EmptyIPMI EXCEPT !.NodeInfo = Some([Nodes |-> <<nodeABC, nodeXYZ>>])]},
     smbios : {[EmptyIPMI EXCEPT !.Dimm = <<[Size |-> <<"8", "1", "9", "2">> \o sMB],
                                            [Size |-> <<"8", "1", "9", "2">> \o sMB]>>,
                                 !.CPU = <<[Version |-> "Intel(R) Xeon(R) CPU E5-2630 v4", Core |-> <<"1", "0">>]>>,
                                 !.Bios = Some([Version |-> "2.0a"])],
               [EmptyIPMI EXCEPT !.Dimm = <<[Size |-> <<"N", "/", "A">>]>>]},
     generic : {[EmptyIPMI EXCEPT !.GenericInfo =
                    Some([IpmiFwVersion |-> "3.58", BmcMac |-> "0c:c4:7a:00:00:01", Generic |-> Nil])]},
     config : {[EmptyIPMI EXCEPT !.ConfigInfo = Some([Hostname |-> Some([Name |-> "bmc-host"])])]},
     health : {[EmptyIPMI EXCEPT !.HealthInfo = Some([Health |-> "1"])]},
     power : {[EmptyIPMI EXCEPT !.PowerInfo = Some([Power |-> [Status |-> <<"O", "N">>]])]},
     platform : {[EmptyIPMI EXCEPT !.PlatformInfo =
                    Some([MbMacAddr1 |-> "0c:c4:7a:00:00:11", MbMacAddr2 |-> "0c:c4:7a:00:00:12",
                          MbMacAddr3 |-> "", MbMacAddr4 |-> ""])]},
     license : {[EmptyIPMI EXCEPT !.BiosLicense = Some([Check |-> "0"])]},
     chassis : {[wellFormed |-> TRUE, SerialNumber |-> sABC, Code |-> "", Message |-> ""],
                [wellFormed |-> TRUE, SerialNumber |-> <<>>, Code |-> "1", Message |-> "bad"]}]

\* the exchanges a query of the device can meet: a failure, the document, or
\* a malformed body of which all or nothing was decoded
DeviceWires(d) ==
    FailedExchanges(EmptyIPMI)
    \cup [login : {TRUE}, net : {"ok"}, status : {200, 500}, wellFormed : {TRUE}, body : {d}]
    \cup [login : {TRUE}, net : {"ok"}, status : {200}, wellFormed : {FALSE}, body : {d, EmptyIPMI}]

DeviceGetWires(payload) ==
    FailedExchanges([wellFormed |-> FALSE, SerialNumber |-> <<>>, Code |-> "", Message |-> ""])
    \cup [login : {TRUE}, net : {"ok"}, status : Statuses, wellFormed : {TRUE}, body : {payload}]

\* the exchanges of one call of the accessor on device dev, one per request
WiresOf(name, dev) ==
    CASE name \in {"Serial", "Model", "HardwareType"} -> {<<w>> : w \in DeviceWires(dev.fru)}
      [] name = "Version" -> {<<w>> : w \in DeviceWires(dev.generic)}
      [] name = "Nics" -> DeviceWires(dev.generic) \X DeviceWires(dev.platform)
      [] name = "Disks" -> {<<>>}
      [] name \in {"BiosVersion", "CPU", "Memory"} -> {<<w>> : w \in DeviceWires(dev.smbios)}
      [] name = "Status" -> {<<w>> : w \in DeviceWires(dev.health)}
      [] name = "Name" -> {<<w>> : w \in DeviceWires(dev.config)}
      [] name \in {"TempC", "PowerKw", "Slot"} -> DeviceWires(dev.node) \X DeviceWires(dev.fru)
      [] name = "IsBlade" -> {<<w>> : w \in DeviceWires(dev.node)}
      [] name = "PowerState" -> {<<w>> : w \in DeviceWires(dev.power)}
      [] name = "License" -> {<<w>> : w \in DeviceWires(dev.license)}
      [] name = "ChassisSerial" -> {<<w>> : w \in DeviceGetWires(dev.chassis)}

Invoke(name, ws) ==
    CASE name = "Serial" -> Serial(ws)
      [] name = "Version" -> Version(ws)
      [] name = "Model" -> Model(ws)
      [] name = "Nics" -> Nics(ws)
      [] name = "Disks" -> Disks(ws)
      [] name = "BiosVersion" -> BiosVersion(ws)
      [] name = "CPU" -> CPU(ws)
      [] name = "Memory" -> Memory(ws)
      [] name = "Status" -> Status(ws)
      [] name = "Name" -> Name(ws)
      [] name = "TempC" -> TempC(ws)
      [] name = "PowerKw" -> PowerKw(ws)
      [] name = "PowerState" -> PowerState(ws)
      [] name = "License" -> License(ws)
      [] name = "Slot" -> Slot(ws)
      [] name = "ChassisSerial" -> ChassisSerial(ws)

\* the accessor calls of the two branches, in program order
BladeOrder == <<"Serial", "Version", "Model", "Nics", "Disks", "BiosVersion", "CPU", "Memory",
                "Status", "Name", "TempC", "PowerKw", "PowerState", "License", "Slot", "ChassisSerial">>
\* the Discrete branch asking for the model before the version
DiscreteOrderModelFirst ==
    <<"Serial", "Model", "Version", "Nics", "Disks", "BiosVersion", "CPU", "Memory",
      "Status", "Name", "TempC", "PowerKw", "PowerState", "License">>

DiscreteOrder == <<"Serial", "Version", "Model", "Nics", "Disks", "BiosVersion", "CPU", "Memory",
                   "Status", "Name", "TempC", "PowerKw", "PowerState", "License">>
OrderOf(kind) == IF kind = "Blade" THEN BladeOrder ELSE DiscreteOrder

\* &devices.Blade{} and &devices.Discrete{}
ZeroServer(kind) ==
    LET common == [kind |-> kind, Vendor |-> "", BmcAddress |-> "", BmcType |-> "",
                   Serial |-> <<>>, BmcVersion |-> "", Model |-> "", Nics |-> <<>>, Disks |-> <<>>,
                   BiosVersion |-> "", Processor |-> "", ProcessorCount |-> 0,
                   ProcessorCoreCount |-> 0, ProcessorThreadCount |-> 0, Memory |-> 0,
                   Status |-> "", Name |-> "", TempC |-> 0, PowerKw |-> FloatZero,
                   PowerState |-> <<>>, BmcLicenceType |-> "", BmcLicenceStatus |-> ""]
    IN  IF kind = "Blade"
        THEN common @@ [BladePosition |-> 0, ChassisSerial |-> <<>>]
        ELSE common

\* the assignment of an accessor's value to its field(s) of the record
Assign(srv, name, val) ==
    CASE name = "Serial" -> [srv EXCEPT !.Serial = val]
      [] name = "Version" -> [srv EXCEPT !.BmcVersion = val]
      [] name = "Model" -> [srv EXCEPT !.Model = val]
      [] name = "Nics" -> [srv EXCEPT !.Nics = val]
      [] name = "Disks" -> [srv EXCEPT !.Disks = val]
      [] name = "BiosVersion" -> [srv EXCEPT !.BiosVersion = val]
      [] name = "CPU" -> [srv EXCEPT !.Processor = val.cpu, !.ProcessorCount = val.cpuCount,
                                     !.ProcessorCoreCount = val.coreCount,
                                     !.ProcessorThreadCount = val.hyperthreadCount]
      [] name = "Memory" -> [srv EXCEPT !.Memory = val]
      [] name = "Status" -> [srv EXCEPT !.Status = val]
      [] name = "Name" -> [srv EXCEPT !.Name = val]
      [] name = "TempC" -> [srv EXCEPT !.TempC = val]
      [] name = "PowerKw" -> [srv EXCEPT !.PowerKw = val]
      [] name = "PowerState" -> [srv EXCEPT !.PowerState = val]
      [] name = "License" -> [srv EXCEPT !.BmcLicenceType = val.name, !.BmcLicenceStatus = val.licType]
      [] name = "Slot" -> [srv EXCEPT !.BladePosition = val]
      [] name = "ChassisSerial" -> [srv EXCEPT !.ChassisSerial = val]

\* the accessors one call made by ServerSnapshot enters: the accessor itself,
\* Model inside HardwareType, and Serial inside TempC, PowerKw and Slot once
\* their own query has produced a node-info document
Invocations(name, ws) ==
    <<[name |-> name, by |-> "ServerSnapshot"]>>
    \o (IF name = "HardwareType" THEN <<[name |-> "Model", by |-> name]>>
        ELSE IF name \in {"TempC", "PowerKw", "Slot"}
                /\ query(ws[1]).err = nil /\ query(ws[1]).ipmi[1].NodeInfo # Nil
        THEN <<[name |-> "Serial", by |-> name]>>
        ELSE <<>>)

\* the probe deciding Blade also when it failed
ProbedKindBladeOnError(p) == IF p.val \/ p.err # nil THEN "Blade" ELSE "Discrete"

\* if isBlade, _ := s.IsBlade(); isBlade { blade } else { discrete }
ProbedKind(p) == IF p.val THEN "Blade" ELSE "Discrete"

\* the check after the call of Name left out
AbortsButName(name, r) == name # "Name" /\ r.err # nil

\* if err != nil { return nil, err }
Aborts(name, r) == r.err # nil

\* ServerSnapshot starts: the IsBlade probe, its error dropped, and the
\* allocation of the record
Probe ==
    /\ pc = "idle"
    /\ \E ws \in WiresOf("IsBlade", device) :
        /\ probe' = IsBlade(ws)
        /\ server' = Some(ZeroServer(ProbedKind(IsBlade(ws))))
        /\ calls' = <<"IsBlade">>
        /\ callErrs' = <<IsBlade(ws).err>>
        /\ invoked' = Invocations("IsBlade", ws)
    /\ pc' = "describe"
    /\ UNCHANGED <<device, idx, ret, last, wrapVars, sessVars>>

\* Vendor, BmcAddress and BmcType = s.HardwareType()
Describe ==
    /\ pc = "describe"
    /\ \E ws \in WiresOf("HardwareType", device) :
        /\ server' = Some([server[1] EXCEPT !.Vendor = Vendor, !.BmcAddress = "ip",
                                            !.BmcType = HardwareType(ws)])
        /\ calls' = Append(calls, "HardwareType")
        /\ callErrs' = Append(callErrs, Model(ws).err)
        /\ invoked' = invoked \o Invocations("HardwareType", ws)
    /\ pc' = "sequence"
    /\ UNCHANGED <<device, idx, probe, ret, last, wrapVars, sessVars>>

\* the next accessor of the branch, the check of its error, and after the
\* last one the return of the record
Step ==
    /\ pc = "sequence"
    /\ LET order == OrderOf(server[1].kind)
           name == order[idx + 1]
       IN  \E ws \in WiresOf(name, device) :
             LET r == Invoke(name, ws) IN
             /\ calls' = Append(calls, name)
             /\ callErrs' = Append(callErrs, IF r.panic THEN "panic" ELSE r.err)
             /\ invoked' = invoked \o Invocations(name, ws)
             /\ idx' = idx + 1
             /\ IF r.panic
                THEN /\ pc' = "panicked"
                     /\ UNCHANGED <<server, ret>>
                ELSE IF Aborts(name, r)
                THEN /\ pc' = "returned"
                     /\ ret' = [server |-> Nil, err |-> r.err]
                     /\ server' = Some(Assign(server[1], name, r.val))
                ELSE /\ server' = Some(Assign(server[1], name, r.val))
                     /\ IF idx + 1 = Len(order)
                        THEN /\ pc' = "returned"
                             /\ ret' = [server |-> Some(Assign(server[1], name, r.val)), err |-> r.err]
                        ELSE /\ pc' = "sequence"
                             /\ UNCHANGED ret
    /\ UNCHANGED <<device, probe, last, wrapVars, sessVars>>

Init == device \in Devices /\ NoSnapshot /\ NoCall /\ NoWrap /\ NoSession

Next == Probe \/ Describe \/ Step

Spec == Init /\ [][Next]_vars

-----------------------------------------------------------------------------
(* A caller running query, get and post one after the other *)

\* the number of operations run so far
OpsDone == IF wireLog = <<>> THEN 0 ELSE wireLog[Len(wireLog)].op

Ran(op, w, out, events) ==
    /\ last' = [op |-> op, ws |-> <<w>>, out |-> out]
    /\ wireLog' = wireLog \o events
    /\ session' = SessionAfter(w, session)
    /\ UNCHANGED <<snapVars, wrapVars>>

OpQuery ==
    /\ OpsDone < MaxOps
    /\ \E w \in FruWires : Ran("query", w, query(w), queryEvents(w, OpsDone + 1, session))

OpGet ==
    /\ OpsDone < MaxOps
    /\ \E w \in GetWires : Ran("get", w, get(w), getEvents(w, OpsDone + 1, session))

OpPost ==
    /\ OpsDone < MaxOps
    /\ \E w \in PostWires : Ran("post", w, post(w), postEvents(w, OpsDone + 1, session))

SessionInit == device = Nil /\ NoSnapshot /\ NoCall /\ NoWrap /\ NoSession
SessionNext == OpQuery \/ OpGet \/ OpPost
SessionSpec == SessionInit /\ [][SessionNext]_vars

-----------------------------------------------------------------------------
(* Properties *)

\* the exchange went well: logged in, answered, body read and decoded
Ok(w) == w.login /\ w.net = "ok" /\ w.wellFormed

\* the error a failed exchange is expected to surface as
WireErr(w) ==
    IF ~w.login THEN "ErrLogin"
    ELSE IF w.net = "fail" THEN "ErrTransport"
    ELSE IF w.net = "readfail" THEN "ErrRead"
    ELSE "ErrDecode"

\* calls of ServerSnapshot that belong to the fixed accessor sequence
InSequence(k) == calls[k] \notin {"IsBlade", "HardwareType"}

\* C1: in ServerSnapshot, for either shape and every position of the accessor
\* sequence, an accessor call that returns an error is the last call made, and
\* ServerSnapshot has returned exactly that error with a nil snapshot.
C1_FailFast ==
    \A k \in 1..Len(calls) :
        (InSequence(k) /\ callErrs[k] \notin {nil, "panic"})
            => /\ k = Len(calls)
               /\ pc = "returned"
               /\ ret = [server |-> Nil, err |-> callErrs[k]]

\* the 7th call of the sequence, CPU, failed on the Blade path after six
\* successful calls
C1_Witness ==
    /\ pc = "returned" /\ server[1].kind = "Blade"
    /\ Len(calls) = 9 /\ calls[9] = "CPU" /\ callErrs[9] = "ErrTransport"
    /\ \A k \in 3..8 : callErrs[k] = nil
    /\ ret = [server |-> Nil, err |-> "ErrTransport"]

AccessorOps == {"Serial", "Model", "Version", "Name", "Status", "Memory", "CPU", "BiosVersion",
                "PowerKw", "PowerState", "TempC", "IsBlade", "Slot", "Nics", "License"}

\* C2: every accessor terminates normally and, when its query fails (login,
\* transport or decode failure), returns that error to its caller.
C2_AccessorsReturnQueryError ==
    (last.op \in AccessorOps /\ ~Ok(last.ws[1]))
        => /\ ~last.out.panic
           /\ last.out.err = WireErr(last.ws[1])

\* C3: ServerSnapshot probes IsBlade once and first; the record is a Blade iff
\* the probe returned true and a Discrete otherwise, also when the probe
\* failed; the probe never ends the aggregation; a successful return holds
\* one of the two shapes; Slot and ChassisSerial are called for a Blade only.
C3_ShapeByProbe ==
    /\ calls # <<>> => calls[1] = "IsBlade" /\ \A k \in 2..Len(calls) : calls[k] # "IsBlade"
    /\ Len(calls) = 1 => pc = "describe"
    /\ server # Nil => /\ server[1].kind \in {"Blade", "Discrete"}
                       /\ server[1].kind = "Blade" <=> probe.val = TRUE
                       /\ probe.err # nil => server[1].kind = "Discrete"
    /\ (pc = "returned" /\ ret.err = nil)
          => /\ ret.server # Nil
             /\ ret.server[1].kind = (IF probe.val THEN "Blade" ELSE "Discrete")
    /\ \A k \in 1..Len(calls) : calls[k] \in {"Slot", "ChassisSerial"} => server[1].kind = "Blade"

\* the probe failed and a Discrete snapshot was returned all the same
C3_Witness ==
    /\ pc = "returned" /\ ret.err = nil /\ ret.server # Nil
    /\ probe.err = "ErrLogin" /\ ret.server[1].kind = "Discrete"

\* C4: a snapshot returned with a nil error has every accessor-derived field,
\* BmcType included, set from an accessor call that succeeded.
C4_FullyPopulatedOrError ==
    (pc = "returned" /\ ret.err = nil /\ ret.server # Nil)
        => \A k \in 2..Len(calls) : callErrs[k] = nil

\* C5 as stated: query and get return an error whenever the exchange fails at
\* the network level or the status is not 2xx.
C5_ErrorOnNon2xx ==
    (last.op \in {"query", "get"}
       /\ (last.ws[1].net # "ok" \/ last.ws[1].status \notin 200..299))
        => last.out.err # nil

\* C5: query and get return the network error of the exchange unchanged, with
\* no document or payload; get returns ErrPageNotFound for status 404; no
\* other status is examined: query returns what decoding the body yields and
\* get returns the payload with a nil error.
C5_TransportErrors ==
    /\ (last.op \in {"query", "get"} /\ last.ws[1].login /\ last.ws[1].net # "ok")
          => last.out.err = WireErr(last.ws[1])
    /\ (last.op = "query" /\ last.ws[1].login /\ last.ws[1].net # "ok") => last.out.ipmi = Nil
    /\ (last.op = "get" /\ last.ws[1].login /\ last.ws[1].net # "ok") => last.out.payload = Nil
    /\ (last.op = "get" /\ last.ws[1].login /\ last.ws[1].net = "ok")
          => IF last.ws[1].status = 404
             THEN last.out = [payload |-> Nil, err |-> "ErrPageNotFound"]
             ELSE last.out = [payload |-> Some(last.ws[1].body), err |-> nil]
    /\ (last.op = "query" /\ last.ws[1].login /\ last.ws[1].net = "ok")
          => last.out = [ipmi |-> Some(last.ws[1].body),
                         err |-> IF last.ws[1].wellFormed THEN nil ELSE "ErrDecode"]

\* the request of a query could not be sent and query returned that error
C5_Witness ==
    /\ last.op = "query" /\ last.ws[1].login /\ last.ws[1].net = "fail"
    /\ last.out = [ipmi |-> Nil, err |-> "ErrTransport"]

\* some node entry of the document carries a non-empty node serial
HasNodeSerial(ipmi) ==
    /\ ipmi.NodeInfo # Nil
    /\ \E i \in 1..Len(ipmi.NodeInfo[1].Nodes) : Len(ipmi.NodeInfo[1].Nodes[i].NodeSerial) > 0

\* C6: IsBlade returns true iff some node entry of the node-info document has
\* a non-empty node serial; when the query succeeds and there is none (no
\* node-info document, no nodes, empty serials) it returns false and no error.
C6_IsBlade ==
    last.op = "IsBlade"
        => /\ ~last.out.panic
           /\ last.out.val = TRUE <=> (Ok(last.ws[1]) /\ HasNodeSerial(last.ws[1].body))
           /\ Ok(last.ws[1]) => last.out.err = nil

\* two nodes, the first without a serial and the second with one: a blade
C6_Witness ==
    /\ last.op = "IsBlade" /\ Ok(last.ws[1]) /\ last.ws[1].body.NodeInfo # Nil
    /\ last.ws[1].body.NodeInfo[1].Nodes = <<[ID |-> 3, NodeSerial |-> <<>>, Power |-> <<"0">>, SystemTemp |-> <<"0">>], nodeABC>>
    /\ last.out = R(TRUE, nil)

\* the watts a power reading of the model stands for, -1 when it is no number
WattsOf(power) ==
    CASE power = <<"5", "0", "0">> -> 500
      [] power = <<"9", "0", "0">> -> 900
      [] power = <<"7", "5", "0">> -> 750
      [] power = <<"0">> -> 0
      [] OTHER -> 0 - 1

\* the two strings are equal up to the case of their letters
EqualFold(a, b) ==
    /\ Len(a) = Len(b)
    /\ \A i \in 1..Len(a) :
          \/ a[i] = b[i]
          \/ a[i] \in DOMAIN LowerMap /\ LowerMap[a[i]] = b[i]
          \/ b[i] \in DOMAIN LowerMap /\ LowerMap[b[i]] = a[i]

\* C7: with the node-info document present PowerKw fetches the own serial via
\* Serial() and returns the watts of the (first) node entry whose serial
\* equals it case-insensitively, divided by 1000; with no such entry or no
\* node-info document it returns zero and no error; when Serial() fails it
\* returns that error.
C7_PowerKw ==
    (last.op = "PowerKw" /\ Ok(last.ws[1]))
        => LET ipmi == last.ws[1].body
               w2 == last.ws[2]
               fru == w2.body.FruInfo
           IN  IF ipmi.NodeInfo = Nil THEN last.out = R(FloatZero, nil)
               ELSE IF ~Ok(w2) THEN last.out = R(FloatZero, WireErr(w2))
               ELSE IF fru = Nil \/ fru[1].Board = Nil THEN last.out = R(FloatZero, "ErrInvalidSerial")
               ELSE LET nodes == ipmi.NodeInfo[1].Nodes
                        own == fru[1].Board[1].SerialNum
                        match == {i \in 1..Len(nodes) : EqualFold(nodes[i].NodeSerial, own)}
                    IN  IF match = {} THEN last.out = R(FloatZero, nil)
                        ELSE LET watts == WattsOf(nodes[First(match)].Power) IN
                             watts >= 0
                                => /\ last.out.err = nil /\ ~last.out.panic
                                   /\ last.out.val.milli \in 0..999
                                   /\ 1000 * last.out.val.whole + last.out.val.milli = watts

\* nodes [ABC:500, XYZ:900] and own serial xyz: 0.9
C7_Witness ==
    /\ last.op = "PowerKw" /\ Ok(last.ws[1]) /\ Ok(last.ws[2])
    /\ last.ws[1].body.NodeInfo = Some([Nodes |-> <<nodeABC, nodeXYZ>>])
    /\ last.ws[2].body.FruInfo # Nil /\ last.ws[2].body.FruInfo[1].Board # Nil
    /\ last.ws[2].body.FruInfo[1].Board[1].SerialNum = sxyz
    /\ last.out = R([whole |-> 0, milli |-> 900], nil)

\* C8: for a decoded response with a board sub-element Serial returns the
\* board serial lower-cased and no error; for one lacking the FRU-info
\* document or its board it returns "" and ErrInvalidSerial, an error no
\* failed exchange yields.
C8_Serial ==
    last.op = "Serial"
        => LET w == last.ws[1]
               fru == w.body.FruInfo
           IN  /\ (Ok(w) /\ fru # Nil /\ fru[1].Board # Nil)
                     => /\ last.out.err = nil /\ ~last.out.panic
                        /\ EqualFold(last.out.val, fru[1].Board[1].SerialNum)
                        /\ \A i \in 1..Len(last.out.val) : last.out.val[i] \notin DOMAIN LowerMap
               /\ (Ok(w) /\ (fru = Nil \/ fru[1].Board = Nil))
                     => last.out = R(<<>>, "ErrInvalidSerial")
               /\ ~Ok(w) => last.out.err = WireErr(w) /\ last.out.err # "ErrInvalidSerial"

\* the board serial XyZ was returned as xyz
C8_Witness ==
    /\ last.op = "Serial" /\ Ok(last.ws[1])
    /\ last.ws[1].body.FruInfo # Nil /\ last.ws[1].body.FruInfo[1].Board # Nil
    /\ last.ws[1].body.FruInfo[1].Board[1].SerialNum = sXyZ
    /\ last.out = R(sxyz, nil)

\* the megabytes a module size of the model stands for, -1 when it is no number
MegabytesOf(size) ==
    CASE size = <<"8", "1", "9", "2", " ", "M", "B">> -> 8192
      [] size = <<"4", "0", "9", "6", " ", "M", "B">> -> 4096
      [] size = <<"5", "1", "2", " ", "M", "B">> -> 512
      [] size = <<"1", "0", "2", "4">> -> 1024
      [] OTHER -> 0 - 1

RECURSIVE TotalMB(_)
TotalMB(dimm) == IF dimm = <<>> THEN 0 ELSE MegabytesOf(Head(dimm).Size) + TotalMB(Tail(dimm))

\* C9: Memory returns the sum of the module sizes in MB, unit suffix
\* stripped, divided once by 1024 (the sum, not each module); a size that is
\* no integer yields an error.
C9_Memory ==
    (last.op = "Memory" /\ Ok(last.ws[1]))
        => LET dimm == last.ws[1].body.Dimm IN
           IF \A i \in 1..Len(dimm) : MegabytesOf(dimm[i].Size) >= 0
           THEN last.out = R(TotalMB(dimm) \div 1024, nil)
           ELSE ~last.out.panic /\ last.out.err # nil

\* two modules of 512 MB make 1 GiB
C9_Witness ==
    /\ last.op = "Memory" /\ Ok(last.ws[1])
    /\ last.ws[1].body.Dimm = <<[Size |-> <<"5", "1", "2", " ", "M", "B">>], [Size |-> <<"5", "1", "2", " ", "M", "B">>]>>
    /\ last.out = R(1, nil)

\* C10: the envelope wrapXML builds carries the payload as its body and the
\* fixed namespaces; with a non-empty session key its one security header
\* holds exactly that key, marked must-understand "true"; with an empty key
\* the header is empty.
C10_WrapXML ==
    doc # Nil
        => LET e == doc[1]
               in == wrapIn[1]
           IN  /\ e.Body = [Content |-> in.element]
               /\ e.SOAPENV = "http://www.w3.org/2003/05/soap-envelope"
               /\ e.Xsi = "http://www.w3.org/2001/XMLSchema-instance"
               /\ e.Xsd = "http://www.w3.org/2001/XMLSchema"
               /\ e.Wsu = "http://docs.oasis-open.org/wss/2004/01/oasis-200401-wss-wssecurity-utility-1.0.xsd"
               /\ e.Wsse = "http://docs.oasis-open.org/wss/2004/01/oasis-200401-wss-wssecurity-secext-1.0.xsd"
               /\ e.Hpoa = "hpoa.xsd"
               /\ Len(in.sessionKey) > 0
                     => /\ e.Header.Security.MustUnderstand = "true"
                        /\ e.Header.Security.HpOaSessionKeyToken.OaSessionKey.Text = in.sessionKey
               /\ Len(in.sessionKey) = 0
                     => /\ e.Header.Security.MustUnderstand = ""
                        /\ e.Header.Security.HpOaSessionKeyToken.OaSessionKey.Text = <<>>

\* an envelope built with the session key "9f"
C10_Witness ==
    /\ doc # Nil /\ wrapIn[1].sessionKey = <<"9", "f">>
    /\ doc[1].Header.Security.HpOaSessionKeyToken.OaSessionKey.Text = <<"9", "f">>
    /\ doc[1].Header.Security.MustUnderstand = "true"

\* the order of the accessor sequence, and its Blade-only tail
FixedSequence == <<"Serial", "Version", "Model", "Nics", "Disks", "BiosVersion", "CPU", "Memory",
                   "Status", "Name", "TempC", "PowerKw", "PowerState", "License">>
BladeOnly == <<"Slot", "ChassisSerial">>

IsPrefix(a, b) == Len(a) <= Len(b) /\ SubSeq(b, 1, Len(a)) = a

\* the names of the accessors ServerSnapshot itself has called, in order
DirectlyInvoked ==
    LET Direct(e) == e.by = "ServerSnapshot"
        d == SelectSeq(invoked, Direct)
    IN  [i \in 1..Len(d) |-> d[i].name]

\* C11 as stated: Serial is the first accessor invoked after the probe and
\* no accessor is invoked twice in one aggregation.
C11_SerialFirstEachOnce ==
    /\ Len(invoked) >= 2 => invoked[2].name = "Serial"
    /\ \A i, j \in 1..Len(invoked) : i < j => invoked[i].name # invoked[j].name

\* C11: after the probe ServerSnapshot calls HardwareType, which invokes
\* Model; then it calls itself, each at most once and in the same order for
\* both shapes, Serial, Version, Model, Nics, Disks, BiosVersion, CPU, Memory,
\* Status, Name, TempC, PowerKw, PowerState, License and, for a Blade only,
\* Slot, ChassisSerial.  Any other invocation is Model inside HardwareType or
\* Serial inside TempC, PowerKw or Slot.
C11_FixedOrder ==
    /\ server # Nil
          => IsPrefix(calls, <<"IsBlade", "HardwareType">> \o FixedSequence
                             \o (IF server[1].kind = "Blade" THEN BladeOnly ELSE <<>>))
    /\ DirectlyInvoked = calls
    /\ \A i, j \in 1..Len(calls) : i < j => calls[i] # calls[j]
    /\ Len(calls) >= 2 => invoked[3] = [name |-> "Model", by |-> "HardwareType"]
    /\ Len(calls) >= 3 => calls[3] = "Serial"
    /\ \A i \in 1..Len(invoked) :
          invoked[i].by # "ServerSnapshot"
             => /\ i > 1 /\ invoked[i - 1] = [name |-> invoked[i].by, by |-> "ServerSnapshot"]
                /\ <<invoked[i].by, invoked[i].name>>
                      \in {<<"HardwareType", "Model">>, <<"TempC", "Serial">>,
                           <<"PowerKw", "Serial">>, <<"Slot", "Serial">>}
    /\ (pc = "returned" /\ ret.err = nil)
          => Len(calls) = 2 + Len(FixedSequence)
                          + (IF server[1].kind = "Blade" THEN Len(BladeOnly) ELSE 0)

\* a Blade snapshot returned after all sixteen calls of the sequence, PowerKw
\* having asked for the serial again
C11_Witness ==
    /\ pc = "returned" /\ ret.err = nil /\ server[1].kind = "Blade"
    /\ Len(calls) = 18 /\ calls[18] = "ChassisSerial"
    /\ \E i \in 1..Len(invoked) : invoked[i] = [name |-> "Serial", by |-> "PowerKw"]

\* positions of the wire log that belong to operation n
EventsOf(n, ev) == {i \in 1..Len(wireLog) : wireLog[i].op = n /\ wireLog[i].ev = ev}

\* C12: each of query, get and post logs in exactly once, first, also when a
\* session exists; after a failed login it sends nothing, does not retry and
\* returns that error; after a successful one it sends exactly one request.
\* So every request is immediately preceded by the successful login of its
\* own operation.
C12_LoginPerCall ==
    /\ \A i \in 1..Len(wireLog) :
          wireLog[i].ev = "request"
             => /\ i > 1
                /\ wireLog[i - 1].ev = "login" /\ wireLog[i - 1].ok
                /\ wireLog[i - 1].op = wireLog[i].op
                /\ wireLog[i - 1].kind = wireLog[i].kind
    /\ \A n \in 1..OpsDone :
          /\ Cardinality(EventsOf(n, "login")) = 1
          /\ Cardinality(EventsOf(n, "request"))
                = (IF \E i \in EventsOf(n, "login") : wireLog[i].ok THEN 1 ELSE 0)
          /\ \A i \in EventsOf(n, "login"), j \in EventsOf(n, "request") : i < j
    /\ last.op \in {"query", "get", "post"}
          => /\ wireLog # <<>> /\ wireLog[Len(wireLog)].kind = last.op
             /\ ~last.ws[1].login
                   => /\ last.out.err = "ErrLogin"
                      /\ wireLog[Len(wireLog)].ev = "login" /\ ~wireLog[Len(wireLog)].ok

\* a query opened the session, and the get after it logged in again before
\* sending its request
C12_Witness ==
    /\ Len(wireLog) = 4
    /\ wireLog[1] = [ev |-> "login", op |-> 1, kind |-> "query", ok |-> TRUE, session |-> FALSE]
    /\ wireLog[2].ev = "request" /\ wireLog[2].op = 1
    /\ wireLog[3] = [ev |-> "login", op |-> 2, kind |-> "get", ok |-> TRUE, session |-> TRUE]
    /\ wireLog[4].ev = "request" /\ wireLog[4].op = 2 /\ wireLog[4].kind = "get"

====
